---------------------------- MODULE Spec2Model ----------------------------
(***************************************************************************)
(* TextComparer: the similarity engine of services/similarity.py and the   *)
(* session-gated routes of main.py.                                        *)
(*                                                                         *)
(* Representation.                                                         *)
(*   - A text is a sequence of Unicode code points (Python str).           *)
(*   - A Python float is a fixed-point integer: the value times Scale      *)
(*     (10^6), truncated.  Products and quotients go through MulDiv, which *)
(*     never leaves the 32-bit range of the model checker.  A fingerprint  *)
(*     component is rounded to 3 decimals by the code and is held in       *)
(*     thousandths; a score is rounded to 4 decimals and is held in        *)
(*     ten-thousandths (10000 is 1.0).                                     *)
(*   - An exception is the value Raised (below every float the model can   *)
(*     hold), which every later operation passes on.                       *)
(***************************************************************************)
EXTENDS Integers, Sequences, FiniteSets, TLC

---------------------------------------------------------------------------
(* Bounds of the model. *)

\* longest text compared with itself
MaxLen == 3
\* combined length of two texts drawn independently
MaxTotal == 2
\* distinct tokens of the large text JaccardSimilarity.compute is given
BigVocab == 20002

---------------------------------------------------------------------------
(* Python floats as fixed-point integers. *)

Scale == 10 ^ 6
Thousand == 10 ^ 3
Raised == 0 - 2 ^ 30
IsRaised(x) == x = Raised

Abs(x) == IF x < 0 THEN 0 - x ELSE x
Max(a, b) == IF a >= b THEN a ELSE b

\* <<q, r>> with a * b = q * c + r and 0 <= r < c, for 0 <= a < c < 2^30:
\* double-and-add over the bits of b, every intermediate below 2^31.
RECURSIVE MulDivQR(_, _, _)
MulDivQR(a, b, c) ==
  IF b = 0 THEN <<0, 0>>
  ELSE LET h  == MulDivQR(a, b \div 2, c)
           r2 == 2 * h[2]
           q2 == 2 * h[1] + (IF r2 >= c THEN 1 ELSE 0)
           r3 == (IF r2 >= c THEN r2 - c ELSE r2) + (IF b % 2 = 1 THEN a ELSE 0)
       IN  IF r3 >= c THEN <<q2 + 1, r3 - c>> ELSE <<q2, r3>>

\* floor(a * b / c) for a, b >= 0 and c > 0
MulDiv(a, b, c) == (a \div c) * b + MulDivQR(a % c, b, c)[1]

\* x * y of two floats
FMul(x, y) == IF IsRaised(x) \/ IsRaised(y) THEN Raised ELSE MulDiv(x, y, Scale)

\* Python's x / y on floats: ZeroDivisionError when y is 0
FDiv(x, y) ==
  IF IsRaised(x) \/ IsRaised(y) THEN Raised
  ELSE IF y = 0 THEN Raised
  ELSE MulDiv(x, Scale, y)

\* round-half-even of the rational p / q, q > 0, to an integer (Python's
\* round on a value whose double is exact)
RoundRatio(p, q) ==
  LET f == p \div q
      r == p % q
  IN  IF 2 * r > q THEN f + 1
      ELSE IF 2 * r < q THEN f
      ELSE IF f % 2 = 0 THEN f ELSE f + 1

\* round(p / q, 3) in thousandths; p / q raises when q = 0
Round3Ratio(p, q) == IF q = 0 THEN Raised ELSE RoundRatio(p * Thousand, q)

\* round(p / q, 4) in ten-thousandths; p / q raises when q = 0
Round4Ratio(p, q) == IF q = 0 THEN Raised ELSE RoundRatio(p * 10000, q)

\* round(x, 4) of a float x, in ten-thousandths
Round4(x) == IF IsRaised(x) THEN Raised ELSE RoundRatio(x, Scale \div 10000)

\* math.sqrt on a float: Newton's iteration from an upper bound
RECURSIVE SqrtFrom(_, _)
SqrtFrom(x, r) ==
  LET n == (r + FDiv(x, r)) \div 2
  IN  IF n >= r THEN r ELSE SqrtFrom(x, n)

Sqrt(x) == IF x < 0 THEN Raised ELSE IF x = 0 THEN 0 ELSE SqrtFrom(x, Max(x, Scale))

\* math.log at the integers the program takes it at, as a float; ValueError
\* (math domain error) at 0
Log(n) ==
  CASE n = 1 -> 0
    [] n = 2 -> 693147
    [] n = 3 -> 1098612
    [] n = 4 -> 1386294
    [] n = 5 -> 1609438
    [] n = 6 -> 1791759
    [] n = 7 -> 1945910
    [] n = 8 -> 2079442
    [] n <= 0 -> Raised

---------------------------------------------------------------------------
(* Characters: str.lower, the classes \w and [.!?] and [,.!?;:] of re, and *)
(* the whitespace of str.strip and str.split.                              *)

\* code points of the characters the texts are drawn from
Alphabet == {97, 98, 65, 32, 46, 44, 45}

Lower(c) == IF c \in 65..90 THEN c + 32 ELSE c

IsWordChar(c) ==
  \/ c \in 48..57
  \/ c \in 65..90
  \/ c = 95
  \/ c \in 97..122
  \/ c \in 19968..40869

IsSpace(c) == c \in {9, 10, 11, 12, 13, 32}

IsTerminal(c) == c \in {46, 33, 63}

IsPunctuation(c) == c \in {44, 46, 33, 63, 59, 58}

\* str.lower(), character by character
lower(text) == SubSeq([i \in 1..Len(text) |-> Lower(text[i])], 1, Len(text))

---------------------------------------------------------------------------
(* Tokenizer: the three regular expressions and the two str methods.       *)

Min(S) == CHOOSE x \in S : \A y \in S : x <= y

RECURSIVE SortedSeq(_)
SortedSeq(S) == IF S = {} THEN <<>> ELSE <<Min(S)>> \o SortedSeq(S \ {Min(S)})

\* where a maximal run of word characters starts, and where the run that
\* starts at i ends
WordStarts(text) ==
  {i \in 1..Len(text) : IsWordChar(text[i]) /\ (i = 1 \/ ~IsWordChar(text[i - 1]))}

RECURSIVE WordEnd(_, _)
WordEnd(text, i) ==
  IF i < Len(text) /\ IsWordChar(text[i + 1]) THEN WordEnd(text, i + 1) ELSE i

\* re.findall(r"\b\w+\b", text): the maximal runs of word characters, in order
findall_words(text) ==
  LET starts == SortedSeq(WordStarts(text))
  IN  [k \in 1..Len(starts) |-> SubSeq(text, starts[k], WordEnd(text, starts[k]))]

\* set(re.findall(r"\b\w+\b", text.lower()))
word_set(text) ==
  CHOOSE words \in { {SubSeq(t, i, WordEnd(t, i)) : i \in WordStarts(t)} :
                     t \in {lower(text)} } : TRUE

\* re.findall(r'[,.!?;:]', text): every mark, duplicates kept
findall_punctuation(text) == SelectSeq(text, IsPunctuation)

\* re.split(r'[.!?]', text): the pieces between terminal marks, empty ones kept
split_sentences(text) ==
  LET cuts == SortedSeq({i \in 1..Len(text) : IsTerminal(text[i])})
      from(k) == IF k = 1 THEN 1 ELSE cuts[k - 1] + 1
      to(k)   == IF k = Len(cuts) + 1 THEN Len(text) ELSE cuts[k] - 1
  IN  [k \in 1..(Len(cuts) + 1) |-> SubSeq(text, from(k), to(k))]

\* str.strip()
strip(s) ==
  LET solid == {i \in 1..Len(s) : ~IsSpace(s[i])}
  IN  IF solid = {} THEN <<>>
      ELSE SubSeq(s, Min(solid), CHOOSE x \in solid : \A y \in solid : y <= x)

\* len(s.split()): the whitespace-separated pieces of s
split_count(s) ==
  Cardinality({i \in 1..Len(s) : ~IsSpace(s[i]) /\ (i = 1 \/ IsSpace(s[i - 1]))})

\* [s.strip() for s in re.split(r'[.!?]', text) if s.strip()]
sentences_of(text) ==
  LET NonEmpty(s) == strip(s) # <<>>
      kept == SelectSeq(split_sentences(text), NonEmpty)
  IN  [k \in 1..Len(kept) |-> strip(kept[k])]

RECURSIVE Sum(_)
Sum(seq) == IF seq = <<>> THEN 0 ELSE Head(seq) + Sum(Tail(seq))

AnyRaised(seq) == \E i \in 1..Len(seq) : IsRaised(seq[i])

\* sum(...) of floats: an exception raised while an element is computed
\* leaves the sum
SumF(seq) == IF AnyRaised(seq) THEN Raised ELSE Sum(seq)

Range(seq) == {seq[i] : i \in 1..Len(seq)}

---------------------------------------------------------------------------
(* StylisticFingerprint *)

\* the words, sentences and punctuation marks _compute_fingerprint extracts
fp_sentences(text) == sentences_of(text)
fp_words(text) == findall_words(lower(text))
fp_punctuation(text) == findall_punctuation(text)

\* sum(len(s.split()) for s in sentences) / len(sentences) if sentences else 0.0
avg_sentence(sentences) ==
  IF Len(sentences) > 0
  THEN Round3Ratio(Sum([k \in 1..Len(sentences) |-> split_count(sentences[k])]),
                   Len(sentences))
  ELSE 0

\* sum(len(w) for w in words) / len(words) if words else 0.0
avg_word(words) ==
  IF Len(words) > 0
  THEN Round3Ratio(Sum([k \in 1..Len(words) |-> Len(words[k])]), Len(words))
  ELSE 0

\* len(punctuation) / len(words) if words else 0.0
punc_density(punctuation, words) ==
  IF Len(words) > 0 THEN Round3Ratio(Len(punctuation), Len(words)) ELSE 0

\* len(set(words)) / len(words) if words else 0.0
lex_div(words) ==
  IF Len(words) > 0 THEN Round3Ratio(Cardinality(Range(words)), Len(words)) ELSE 0

\* len([s for s in sentences if len(s.split()) < 5]) / len(sentences)
\* if sentences else 0.0
short_ratio(sentences) ==
  IF Len(sentences) > 0
  THEN Round3Ratio(Cardinality({k \in 1..Len(sentences) : split_count(sentences[k]) < 5}),
                   Len(sentences))
  ELSE 0

\* the five components, each round(x, 3), in thousandths
compute_fingerprint(text) ==
  LET sentences   == fp_sentences(text)
      words       == fp_words(text)
      punctuation == fp_punctuation(text)
  IN  << avg_sentence(sentences), avg_word(words), punc_density(punctuation, words),
         lex_div(words), short_ratio(sentences) >>

\* 1 / epsilon of StylisticFingerprint.compare (epsilon = 1e-8)
EpsilonInv == 10 ^ 8

\* one positional difference of compare, a float: 0.0 when both are zero,
\* else abs(a - b) / (max(a, b) + epsilon); a and b in thousandths
positional_diff(a, b) ==
  IF IsRaised(a) \/ IsRaised(b) THEN Raised
  ELSE IF a = 0 /\ b = 0 THEN 0
  ELSE MulDiv(Abs(a - b) * (EpsilonInv \div Thousand), Scale,
              Max(a, b) * (EpsilonInv \div Thousand) + 1)

\* mutant of mean: the sum is not divided by len(diffs)
mean_undivided(diffs) == Sum(diffs)

\* sum(diffs) / len(diffs)
mean(diffs) == FDiv(Sum(diffs), Len(diffs) * Scale)

\* StylisticFingerprint.compare(fp1, fp2), in ten-thousandths
stylistic_compare(fp1, fp2) ==
  LET n     == IF Len(fp1) <= Len(fp2) THEN Len(fp1) ELSE Len(fp2)
      diffs == [i \in 1..n |-> positional_diff(fp1[i], fp2[i])]
      score == IF n > 0
               THEN (IF AnyRaised(diffs) THEN Raised ELSE Scale - mean(diffs))
               ELSE 0
  IN  Round4(score)

---------------------------------------------------------------------------
(* JaccardSimilarity *)

\* mutant of jaccard_ratio: the intersection is measured against the first set
jaccard_ratio_by_first(set1, set2) ==
  IF set1 # {} THEN Round4Ratio(Cardinality(set1 \cap set2), Cardinality(set1)) ELSE 0

\* mutant of jaccard_ratio: no check for an empty union
jaccard_ratio_unguarded(set1, set2) ==
  Round4Ratio(Cardinality(set1 \cap set2), Cardinality(set1 \cup set2))

\* mutant of jaccard_ratio: the union is sized as len(set1) + len(set2)
jaccard_ratio_by_sum(set1, set2) ==
  IF set1 \cup set2 # {}
  THEN Round4Ratio(Cardinality(set1 \cap set2), Cardinality(set1) + Cardinality(set2))
  ELSE 0

\* round(len(inter) / len(union), 4) if union else 0.0, in ten-thousandths
jaccard_ratio(set1, set2) ==
  LET union == set1 \cup set2
      inter == set1 \cap set2
  IN  IF union # {} THEN Round4Ratio(Cardinality(inter), Cardinality(union))
      ELSE 0

jaccard_compute(text1, text2) == jaccard_ratio(word_set(text1), word_set(text2))

---------------------------------------------------------------------------
(* TfIdfSimilarity *)

\* Python's order on str: by code point, a proper prefix first
RECURSIVE StrLess(_, _)
StrLess(u, v) ==
  IF v = <<>> THEN FALSE
  ELSE IF u = <<>> THEN TRUE
  ELSE IF Head(u) # Head(v) THEN Head(u) < Head(v)
  ELSE StrLess(Tail(u), Tail(v))

RECURSIVE sorted(_)
sorted(S) ==
  IF S = {} THEN <<>>
  ELSE LET m == CHOOSE x \in S : \A y \in S \ {x} : StrLess(x, y)
       IN  <<m>> \o sorted(S \ {m})

tokenized(texts) == [d \in 1..Len(texts) |-> findall_words(lower(texts[d]))]

\* sorted({w for toks in tokenized for w in toks})
build_vocab(texts) ==
  sorted(UNION {Range(tokenized(texts)[d]) : d \in 1..Len(texts)})

\* mutant of compute_idf: math.log(N / df[w]) + 1, without the smoothing
compute_idf_unsmoothed(texts, vocab) ==
  LET N    == Len(texts)
      toks == tokenized(texts)
      df   == [w \in Range(vocab) |-> Cardinality({d \in 1..N : w \in Range(toks[d])})]
  IN  [w \in Range(vocab) |-> (Log(N) - Log(df[w])) + Scale]

\* math.log((N + 1) / (df[w] + 1)) + 1 for every word of the vocabulary
compute_idf(texts, vocab) ==
  LET N    == Len(texts)
      toks == tokenized(texts)
      df   == [w \in Range(vocab) |-> Cardinality({d \in 1..N : w \in Range(toks[d])})]
  IN  [w \in Range(vocab) |-> (Log(N + 1) - Log(df[w] + 1)) + Scale]

\* tokens.count(w)
count(tokens, w) == Cardinality({k \in 1..Len(tokens) : tokens[k] = w})

\* 1 + math.log(count)
log1p_count(c) == IF IsRaised(Log(c)) THEN Raised ELSE Scale + Log(c)

\* mutant of tf: no check for count > 0
tf_unguarded(c) == log1p_count(c)

\* 1 + math.log(count) if count > 0 else 0.0
tf(c) == IF c > 0 THEN log1p_count(c) ELSE 0

\* mutant of normalize: the vector is returned as it is
normalize_skipped(vec) == vec

\* [x / norm for x in vec] if norm else vec
normalize(vec) ==
  LET norm == Sqrt(SumF([i \in 1..Len(vec) |-> FMul(vec[i], vec[i])]))
  IN  IF norm # 0 THEN [i \in 1..Len(vec) |-> FDiv(vec[i], norm)] ELSE vec

\* self.idf[w]: KeyError for a word the map does not hold
lookup(idf, w) == IF w \in DOMAIN idf THEN idf[w] ELSE Raised

\* one TF-IDF vector per text, L2-normalized
compute_vectors(texts, vocab, idf) ==
  [d \in 1..Len(texts) |->
     LET tokens == findall_words(lower(texts[d]))
     IN  normalize([i \in 1..Len(vocab) |->
                      FMul(tf(count(tokens, vocab[i])), lookup(idf, vocab[i]))])]

\* TfIdfSimilarity.compare(vec1, vec2), in ten-thousandths
tfidf_compare(vec1, vec2) ==
  LET n   == IF Len(vec1) <= Len(vec2) THEN Len(vec1) ELSE Len(vec2)
      dot == SumF([i \in 1..n |-> FMul(vec1[i], vec2[i])])
  IN  IF Len(vec1) > 0 /\ Len(vec2) > 0 THEN Round4(dot) ELSE 0

---------------------------------------------------------------------------
(* TextComparer *)

\* compare_all: every local of the call, the returned record and whether the
\* call raised instead of returning
compare_all(text1, text2) ==
  LET sf1     == compute_fingerprint(text1)
      sf2     == compute_fingerprint(text2)
      style   == stylistic_compare(sf1, sf2)
      jaccard == jaccard_compute(text1, text2)
      texts   == <<text1, text2>>
      vocab   == build_vocab(texts)
      idf     == compute_idf(texts, vocab)
      vectors == compute_vectors(texts, vocab, idf)
      unpack  == Len(vectors) = 2
      score   == IF unpack THEN tfidf_compare(vectors[1], vectors[2]) ELSE Raised
      raised  == \/ AnyRaised(sf1) \/ AnyRaised(sf2)
                 \/ IsRaised(style) \/ IsRaised(jaccard)
                 \/ \E w \in Range(vocab) : IsRaised(idf[w])
                 \/ \E d \in 1..Len(vectors) : AnyRaised(vectors[d])
                 \/ IsRaised(score)
  IN  [ sf1 |-> sf1, sf2 |-> sf2, vocab |-> vocab, idf |-> idf, vectors |-> vectors,
        raised |-> raised,
        result |-> IF raised THEN << >>
                   ELSE [stylistic |-> style, jaccard |-> jaccard, tfidf |-> score] ]

---------------------------------------------------------------------------
(* The texts a caller passes. *)

\* every string over Alphabet of at most n characters
Strings(n) == UNION {[1..k -> Alphabet] : k \in 0..n}

\* "Cats", "Dogs", "run"
ScenarioWords == { <<67, 97, 116, 115>>, <<68, 111, 103, 115>>, <<114, 117, 110>> }

\* the two-word sentences over ScenarioWords: "Cats run.", "Dogs run.", ...
Phrases == {w1 \o <<32>> \o w2 \o <<46>> : w1 \in ScenarioWords, w2 \in ScenarioWords}

CatsRun == <<67, 97, 116, 115, 32, 114, 117, 110, 46>>
DogsRun == <<68, 111, 103, 115, 32, 114, 117, 110, 46>>

\* the pairs of texts TextComparer is constructed with
Inputs ==
  {p \in Strings(MaxTotal) \X Strings(MaxTotal) : Len(p[1]) + Len(p[2]) <= MaxTotal}
    \cup {<<s, s>> : s \in Strings(MaxLen)}
    \cup (Phrases \X Phrases)

\* BigVocab distinct one-character words, CJK ideographs from U+4E00 on (each
\* a \w character that str.lower leaves alone), separated by single spaces
BigText ==
  SubSeq([i \in 1..(2 * BigVocab - 1) |-> IF i % 2 = 1 THEN 19967 + (i + 1) \div 2 ELSE 32],
         1, 2 * BigVocab - 1)

\* the pairs of texts JaccardSimilarity.compute is called with
JaccardInputs ==
  Inputs \cup { <<<<19968>>, BigText>>,
                <<BigText, <<19968>>>>,
                <<SubSeq(BigText, 1, Len(BigText) - 2), BigText>> }

---------------------------------------------------------------------------
(* State. *)

VARIABLES
  text1, text2,   \* TextComparer.text1, TextComparer.text2
  pc,             \* "none": no comparer yet; "constructed"; "returned"; "raised"
  locals,         \* the locals of the finished compare_all call
  result,         \* the record compare_all returned
  calls,          \* concurrent compare_all invocations: thread -> its frame
  heap,           \* the TfIdfSimilarity instances constructed so far
  users,          \* AuthService._users: username -> password hash
  session,        \* the client's Flask session: the 'user' key, or NoUser
  granted,        \* history: the user a successful register or login put there
  last            \* the last request of the client and how it was answered

coreVars == <<text1, text2, pc, locals, result>>
concVars == <<calls, heap>>
webVars == <<users, session, granted, last>>
vars == <<text1, text2, pc, locals, result, calls, heap, users, session, granted, last>>

NoLocals == [sf1 |-> <<>>, sf2 |-> <<>>, vocab |-> <<>>, idf |-> <<>>, vectors |-> <<>>]

NoUser == "<none>"

CoreInit ==
  /\ text1 = <<>>
  /\ text2 = <<>>
  /\ pc = "none"
  /\ locals = NoLocals
  /\ result = <<>>

ConcInit ==
  /\ calls = <<>>
  /\ heap = <<>>

WebInit ==
  /\ users = <<>>
  /\ session = NoUser
  /\ granted = NoUser
  /\ last = [req |-> "none", status |-> "none", ran |-> FALSE]

Init == CoreInit /\ ConcInit /\ WebInit

\* TextComparer(text1, text2)
NewComparer ==
  /\ pc = "none"
  /\ \E p \in Inputs :
       /\ text1' = p[1]
       /\ text2' = p[2]
  /\ pc' = "constructed"
  /\ UNCHANGED <<locals, result, concVars, webVars>>

\* comparer.compare_all()
CompareAll ==
  /\ pc = "constructed"
  /\ \E c \in {compare_all(text1, text2)} :
       /\ pc' = IF c.raised THEN "raised" ELSE "returned"
       /\ locals' = [sf1 |-> c.sf1, sf2 |-> c.sf2, vocab |-> c.vocab,
                     idf |-> [i \in 1..Len(c.vocab) |-> c.idf[c.vocab[i]]],
                     vectors |-> c.vectors]
       /\ result' = c.result
  /\ UNCHANGED <<text1, text2, concVars, webVars>>

Next == NewComparer \/ CompareAll

Spec == Init /\ [][Next]_vars

---------------------------------------------------------------------------
(* Claims about one compare_all call (specification Spec). *)

Returned == pc = "returned"
Finished == pc \in {"returned", "raised"}
One == 10 ^ 4

HasWord(text) == word_set(text) # {}

\* C1 as stated: for any non-empty text t, compare_all(t, t) returns
\* jaccard = 1.0, tfidf = 1.0 and stylistic = 1.0.
C1_IdentityAnyNonEmpty ==
  (Finished /\ text1 = text2 /\ Len(text1) >= 1)
    => /\ Returned
       /\ result = [stylistic |-> One, jaccard |-> One, tfidf |-> One]

\* C1 amended: for any text t with at least one word token compare_all(t, t)
\* returns 1.0 three times; for a text t without a word token it returns
\* stylistic = 1.0 and jaccard = tfidf = 0.0.
C1_IdentityWithWord ==
  (Finished /\ text1 = text2)
    => /\ Returned
       /\ result = IF HasWord(text1)
                   THEN [stylistic |-> One, jaccard |-> One, tfidf |-> One]
                   ELSE [stylistic |-> One, jaccard |-> 0, tfidf |-> 0]

\* a text with a repeated word and punctuation, compared with itself
C1_Witness ==
  /\ Returned
  /\ text1 = text2
  /\ Len(text1) = 3
  /\ Cardinality(word_set(text1)) = 1
  /\ Len(fp_words(text1)) = 2

\* C2: compare_all on (a, b) and on (b, a) return the same three scores.
C2_Symmetry ==
  Finished =>
    \E c \in {compare_all(text2, text1)} :
      /\ c.raised = (pc = "raised")
      /\ c.result = result

\* two different texts whose three scores are all strictly between 0 and 1
C2_Witness ==
  /\ Returned
  /\ text1 # text2
  /\ result.stylistic \in 1..(One - 1)
  /\ result.jaccard \in 1..(One - 1)
  /\ result.tfidf \in 1..(One - 1)

\* C3 as stated: the stylistic score is in (0, 1], never 0.0.
C3_StylisticPositive ==
  Finished => (Returned /\ result.stylistic > 0 /\ result.stylistic <= One)

\* C3 amended: the stylistic score is in [0, 1]; it is 0.0 when one text is
\* empty and every fingerprint component of the other is 1.0.
C3_StylisticRange ==
  Finished =>
    /\ Returned
    /\ result.stylistic >= 0
    /\ result.stylistic <= One
    /\ (text1 = <<>> /\ locals.sf2 = <<1000, 1000, 1000, 1000, 1000>>)
         => result.stylistic = 0

\* the empty text against one whose five components are all non-zero
C3_Witness ==
  /\ Returned
  /\ text1 = <<>>
  /\ \A i \in 1..5 : locals.sf2[i] > 0
  /\ result.stylistic = 0

\* C4: compare_all("", "") returns jaccard = 0.0, tfidf = 0.0, stylistic = 1.0,
\* with all-zero fingerprints, an empty vocabulary and two empty vectors.
C4_DoubleEmpty ==
  (Finished /\ text1 = <<>> /\ text2 = <<>>)
    => /\ Returned
       /\ result = [stylistic |-> One, jaccard |-> 0, tfidf |-> 0]
       /\ locals.sf1 = <<0, 0, 0, 0, 0>>
       /\ locals.sf2 = <<0, 0, 0, 0, 0>>
       /\ locals.vocab = <<>>
       /\ locals.vectors = << <<>>, <<>> >>

C4_Witness == Returned /\ text1 = <<>> /\ text2 = <<>>

\* C5: compare_all never raises, and returns a record with exactly the keys
\* stylistic, jaccard and tfidf.
C5_Totality ==
  /\ pc # "raised"
  /\ Returned => DOMAIN result = {"stylistic", "jaccard", "tfidf"}

\* a whitespace-only text against a punctuation-only one, and a text with
\* words against the empty text
C5_Witness ==
  /\ Returned
  /\ \/ (text1 = <<32>> /\ text2 = <<46>>)
     \/ (HasWord(text1) /\ text2 = <<>>)

\* C7 as stated: scenario B returns tfidf = 0.3362.
C7_ScenarioB_3362 ==
  (Finished /\ text1 = CatsRun /\ text2 = DogsRun)
    => /\ Returned
       /\ locals.sf1 = <<2000, 3500, 500, 1000, 1000>>
       /\ locals.sf2 = <<2000, 3500, 500, 1000, 1000>>
       /\ locals.vocab = << <<99, 97, 116, 115>>, <<100, 111, 103, 115>>, <<114, 117, 110>> >>
       /\ <<Round4(locals.idf[1]), Round4(locals.idf[2]), locals.idf[3]>> = <<14055, 14055, Scale>>
       /\ result = [stylistic |-> One, jaccard |-> 3333, tfidf |-> 3362]

\* C7 amended: scenario B returns the stated fingerprints, vocabulary, idf
\* weights, stylistic = 1.0 and jaccard = 0.3333, and tfidf = 0.3361.
C7_ScenarioB_3361 ==
  (Finished /\ text1 = CatsRun /\ text2 = DogsRun)
    => /\ Returned
       /\ locals.sf1 = <<2000, 3500, 500, 1000, 1000>>
       /\ locals.sf2 = <<2000, 3500, 500, 1000, 1000>>
       /\ locals.vocab = << <<99, 97, 116, 115>>, <<100, 111, 103, 115>>, <<114, 117, 110>> >>
       /\ <<Round4(locals.idf[1]), Round4(locals.idf[2]), locals.idf[3]>> = <<14055, 14055, Scale>>
       /\ result = [stylistic |-> One, jaccard |-> 3333, tfidf |-> 3361]

C7_Witness == Returned /\ text1 = CatsRun /\ text2 = DogsRun

\* the number of word tokens of a sentence
token_count(sentence) == Len(findall_words(lower(sentence)))

\* C9: avgSentenceLen and shortSentenceRatio count, per sentence, its word
\* tokens (the words every other fingerprint component uses).
C9_SentenceWordsAreTokens ==
  Returned =>
    LET sentences == fp_sentences(text1)
        n == Len(sentences)
    IN  /\ locals.sf1[1] =
             IF n > 0
             THEN Round3Ratio(Sum([k \in 1..n |-> token_count(sentences[k])]), n)
             ELSE 0
        /\ locals.sf1[5] =
             IF n > 0
             THEN Round3Ratio(Cardinality({k \in 1..n : token_count(sentences[k]) < 5}), n)
             ELSE 0

---------------------------------------------------------------------------
(* JaccardSimilarity.compute called on its own (specification SpecJaccard). *)

\* JaccardSimilarity.compute(text1, text2)
JaccardCompute ==
  /\ pc = "none"
  /\ \E p \in JaccardInputs :
       /\ text1' = p[1]
       /\ text2' = p[2]
       /\ \E r \in {jaccard_compute(p[1], p[2])} :
            /\ result' = r
            /\ pc' = IF IsRaised(r) THEN "raised" ELSE "returned"
  /\ UNCHANGED <<locals, concVars, webVars>>

NextJaccard == JaccardCompute

SpecJaccard == Init /\ [][NextJaccard]_vars

\* C6 as stated: compute returns 0.0 for an empty union and otherwise
\* |S1 n S2| / |S1 u S2| rounded to 4 decimals; the result is in [0, 1], is 1.0
\* exactly when S1 = S2 is non-empty and is 0.0 exactly when S1 and S2 share
\* no token.
C6_JaccardExact ==
  Finished =>
    LET S1 == word_set(text1)
        S2 == word_set(text2)
    IN  /\ Returned
        /\ result = IF S1 \cup S2 = {} THEN 0
                    ELSE RoundRatio(Cardinality(S1 \cap S2) * One, Cardinality(S1 \cup S2))
        /\ result >= 0 /\ result <= One
        /\ (result = One) <=> (S1 = S2 /\ S1 # {})
        /\ (result = 0) <=> (S1 \cap S2 = {})

\* C6 amended: as stated, except that the two "exactly when" hold in one
\* direction only (S1 = S2 non-empty gives 1.0, no shared token gives 0.0);
\* the converses hold when |S1 u S2| < 20000, and fail beyond because of the
\* rounding to 4 decimals.
C6_JaccardRounded ==
  Finished =>
    LET S1 == word_set(text1)
        S2 == word_set(text2)
    IN  /\ Returned
        /\ result = IF S1 \cup S2 = {} THEN 0
                    ELSE RoundRatio(Cardinality(S1 \cap S2) * One, Cardinality(S1 \cup S2))
        /\ result >= 0 /\ result <= One
        /\ (S1 = S2 /\ S1 # {}) => result = One
        /\ (S1 \cap S2 = {}) => result = 0
        /\ Cardinality(S1 \cup S2) < 2 * One =>
             /\ (result = One) => (S1 = S2 /\ S1 # {})
             /\ (result = 0) => (S1 \cap S2 = {})

\* two different word sets that share a token
C6_Witness ==
  /\ Returned
  /\ word_set(text1) \cap word_set(text2) # {}
  /\ word_set(text1) # word_set(text2)
  /\ result = 5000

---------------------------------------------------------------------------
(* Concurrent compare_all invocations (specification SpecConcurrent): each *)
(* statement of compare_all, and each assignment of TfIdfSimilarity's      *)
(* constructor, is one step of its thread.                                 *)

Threads == {"t1", "t2"}

\* "a b", "b." and "a"
ConcTexts == { <<97, 32, 98>>, <<98, 46>>, <<97>> }

Unset == <<>>

IdleFrame ==
  [ pc |-> "idle", text1 |-> Unset, text2 |-> Unset, sf1 |-> Unset, sf2 |-> Unset,
    style_score |-> Unset, jaccard_score |-> Unset, tfidf |-> 0, vectors |-> Unset,
    tfidf_score |-> Unset, result |-> Unset ]

InitConcurrent ==
  /\ CoreInit
  /\ WebInit
  /\ calls = [t \in Threads |-> IdleFrame]
  /\ heap = <<>>

\* mutant of alloc: one module-level TfIdfSimilarity instance is reused
alloc_shared(h) == 1

\* the identity of the object TfIdfSimilarity(...) constructs: a new one
alloc(h) == Len(h) + 1

\* TextComparer(text1, text2).compare_all() is entered
Call(t) ==
  /\ calls[t].pc = "idle"
  /\ \E a \in ConcTexts, b \in ConcTexts :
       calls' = [calls EXCEPT ![t] = [@ EXCEPT !.pc = "l142", !.text1 = a, !.text2 = b]]
  /\ UNCHANGED <<heap, coreVars, webVars>>

\* sf1 = StylisticFingerprint(self.text1).fingerprint
L142(t) ==
  /\ calls[t].pc = "l142"
  /\ calls' = [calls EXCEPT ![t] =
                 [@ EXCEPT !.pc = "l143", !.sf1 = compute_fingerprint(calls[t].text1)]]
  /\ UNCHANGED <<heap, coreVars, webVars>>

\* sf2 = StylisticFingerprint(self.text2).fingerprint
L143(t) ==
  /\ calls[t].pc = "l143"
  /\ calls' = [calls EXCEPT ![t] =
                 [@ EXCEPT !.pc = "l144", !.sf2 = compute_fingerprint(calls[t].text2)]]
  /\ UNCHANGED <<heap, coreVars, webVars>>

\* style_score = StylisticFingerprint.compare(sf1, sf2)
L144(t) ==
  /\ calls[t].pc = "l144"
  /\ calls' = [calls EXCEPT ![t] =
                 [@ EXCEPT !.pc = "l145",
                           !.style_score = stylistic_compare(calls[t].sf1, calls[t].sf2)]]
  /\ UNCHANGED <<heap, coreVars, webVars>>

\* jaccard_score = JaccardSimilarity.compute(self.text1, self.text2)
L145(t) ==
  /\ calls[t].pc = "l145"
  /\ calls' = [calls EXCEPT ![t] =
                 [@ EXCEPT !.pc = "l146",
                           !.jaccard_score = jaccard_compute(calls[t].text1, calls[t].text2)]]
  /\ UNCHANGED <<heap, coreVars, webVars>>

\* tfidf = TfIdfSimilarity([self.text1, self.text2]), up to self.texts = texts
L146(t) ==
  /\ calls[t].pc = "l146"
  /\ \E self \in {alloc(heap)} :
       /\ heap' = IF self \in DOMAIN heap
                  THEN [heap EXCEPT ![self].texts = <<calls[t].text1, calls[t].text2>>]
                  ELSE Append(heap, [texts |-> <<calls[t].text1, calls[t].text2>>,
                                     vocab |-> Unset, idf |-> Unset])
       /\ calls' = [calls EXCEPT ![t] = [@ EXCEPT !.pc = "l87", !.tfidf = self]]
  /\ UNCHANGED <<coreVars, webVars>>

\* self.vocab = self._build_vocab()
L87(t) ==
  /\ calls[t].pc = "l87"
  /\ heap' = [heap EXCEPT ![calls[t].tfidf].vocab = build_vocab(heap[calls[t].tfidf].texts)]
  /\ calls' = [calls EXCEPT ![t].pc = "l89"]
  /\ UNCHANGED <<coreVars, webVars>>

\* self.idf = self._compute_idf()
L89(t) ==
  /\ calls[t].pc = "l89"
  /\ \E self \in {heap[calls[t].tfidf]} :
       heap' = [heap EXCEPT ![calls[t].tfidf].idf = compute_idf(self.texts, self.vocab)]
  /\ calls' = [calls EXCEPT ![t].pc = "l147"]
  /\ UNCHANGED <<coreVars, webVars>>

\* v1, v2 = tfidf.compute_vectors()
L147(t) ==
  /\ calls[t].pc = "l147"
  /\ \E self \in {heap[calls[t].tfidf]} :
       calls' = [calls EXCEPT ![t] =
                   [@ EXCEPT !.pc = "l148",
                             !.vectors = compute_vectors(self.texts, self.vocab, self.idf)]]
  /\ UNCHANGED <<heap, coreVars, webVars>>

\* tfidf_score = TfIdfSimilarity.compare(v1, v2)
L148(t) ==
  /\ calls[t].pc = "l148"
  /\ \E v \in {calls[t].vectors} :
       calls' = [calls EXCEPT ![t] =
                   [@ EXCEPT !.pc = "l149",
                             !.tfidf_score = IF Len(v) = 2 THEN tfidf_compare(v[1], v[2])
                                             ELSE Raised]]
  /\ UNCHANGED <<heap, coreVars, webVars>>

\* return {'stylistic': ..., 'jaccard': ..., 'tfidf': ...}
L149(t) ==
  /\ calls[t].pc = "l149"
  /\ \E f \in {calls[t]} :
       \E raised \in { \/ AnyRaised(f.sf1) \/ AnyRaised(f.sf2)
                       \/ IsRaised(f.style_score) \/ IsRaised(f.jaccard_score)
                       \/ \E d \in 1..Len(f.vectors) : AnyRaised(f.vectors[d])
                       \/ IsRaised(f.tfidf_score) } :
         calls' = [calls EXCEPT ![t] =
                     [@ EXCEPT !.pc = IF raised THEN "raised" ELSE "returned",
                               !.result = IF raised THEN Unset
                                          ELSE [stylistic |-> f.style_score,
                                                jaccard |-> f.jaccard_score,
                                                tfidf |-> f.tfidf_score]]]
  /\ UNCHANGED <<heap, coreVars, webVars>>

NextConcurrent ==
  \E t \in Threads :
    \/ Call(t) \/ L142(t) \/ L143(t) \/ L144(t) \/ L145(t) \/ L146(t)
    \/ L87(t) \/ L89(t) \/ L147(t) \/ L148(t) \/ L149(t)

SpecConcurrent == InitConcurrent /\ [][NextConcurrent]_vars

\* C8: however the steps of the invocations interleave, each returns what
\* compare_all returns on its own texts when run alone, two invocations with
\* the same texts return the same record, none raises, and no two invocations
\* use the same TfIdfSimilarity instance.
C8_Stateless ==
  \A t \in Threads :
    /\ calls[t].pc # "raised"
    /\ calls[t].pc = "returned"
         => calls[t].result = compare_all(calls[t].text1, calls[t].text2).result
    /\ \A u \in Threads \ {t} :
         /\ (calls[t].tfidf # 0 /\ calls[u].tfidf # 0) => calls[t].tfidf # calls[u].tfidf
         /\ ( /\ calls[t].pc = "returned" /\ calls[u].pc = "returned"
              /\ calls[t].text1 = calls[u].text1 /\ calls[t].text2 = calls[u].text2 )
              => calls[t].result = calls[u].result

\* t1 constructed its TfIdfSimilarity after t2 did and returned while t2, on
\* other texts, is still between its constructor and compute_vectors
C8_Witness ==
  /\ calls["t1"].pc = "returned"
  /\ calls["t1"].tfidf = 2
  /\ calls["t2"].pc = "l147"
  /\ calls["t2"].text1 # calls["t1"].text1
  /\ calls["t1"].result.tfidf \in 1..(One - 1)

---------------------------------------------------------------------------
(* The web application of main.py (specification SpecWeb): one browser     *)
(* session issuing requests to the register, login, logout and compare     *)
(* routes.  granted is the user the last successful register or login      *)
(* stored in the session and logout has not removed since; last describes  *)
(* the latest request and its response.                                    *)

Emails == {"ann", "bob"}

Passwords == {"pw", "qw"}

\* werkzeug's salted hash, kept as the password it verifies
generate_password_hash(password) == <<"pbkdf2", password>>

check_password_hash(hash, password) == hash = <<"pbkdf2", password>>

\* AuthService.register: FALSE when the username exists, else the new users map
register(us, username, password) ==
  IF username \in DOMAIN us
  THEN [ok |-> FALSE, users |-> us]
  ELSE [ok |-> TRUE,
        users |-> [u \in DOMAIN us \cup {username} |->
                     IF u = username THEN generate_password_hash(password) ELSE us[u]]]

\* AuthService.authenticate
authenticate(us, username, password) ==
  IF username \notin DOMAIN us THEN FALSE
  ELSE check_password_hash(us[username], password)

\* mutant of login_required: the decorator lets every request through
login_not_required(sess) == TRUE

\* login_required lets the request through when 'user' is in the session
login_required(sess) == sess # NoUser

\* bytes.decode('utf-8', errors='ignore') on single-byte input: ASCII bytes
\* decode to their code points, stray bytes above 127 are dropped
RECURSIVE decode(_)
decode(bytes) ==
  IF bytes = <<>> THEN <<>>
  ELSE (IF Head(bytes) < 128 THEN <<Head(bytes)>> ELSE <<>>) \o decode(Tail(bytes))

NoFile == [filename |-> "", data |-> <<>>]

\* one text input of the compare form: an uploaded file and the values
\* submitted for the text field (none when the field is absent)
Sides ==
  { [file |-> [filename |-> "a.txt", data |-> <<97, 255, 46>>], form |-> << <<98>> >>],
    [file |-> NoFile, form |-> << <<97>> >>],
    [file |-> NoFile, form |-> <<>>] }

\* file.read().decode(...) if file and file.filename else request.form.get(name, '')
text_of(side) ==
  IF side.file.filename # "" THEN decode(side.file.data)
  ELSE IF side.form = <<>> THEN <<>> ELSE side.form[1]

RegisterGet ==
  /\ last' = [req |-> "register_get", status |-> "register_page", ran |-> FALSE]
  /\ UNCHANGED <<users, session, granted, coreVars, concVars>>

RegisterPost ==
  \E email \in Emails, password \in Passwords :
    \E r \in {register(users, email, password)} :
      /\ users' = r.users
      /\ session' = IF r.ok THEN email ELSE session
      /\ granted' = IF r.ok THEN email ELSE granted
      /\ last' = [req |-> "register_post",
                  status |-> IF r.ok THEN "redirect_compare" ELSE "register_page",
                  ran |-> FALSE]
      /\ UNCHANGED <<coreVars, concVars>>

LoginGet ==
  /\ last' = [req |-> "login_get", status |-> "login_page", ran |-> FALSE]
  /\ UNCHANGED <<users, session, granted, coreVars, concVars>>

LoginPost ==
  \E email \in Emails, password \in Passwords :
    \E ok \in {authenticate(users, email, password)} :
      /\ session' = IF ok THEN email ELSE session
      /\ granted' = IF ok THEN email ELSE granted
      /\ last' = [req |-> "login_post",
                  status |-> IF ok THEN "redirect_compare" ELSE "login_page",
                  ran |-> FALSE]
      /\ UNCHANGED <<users, coreVars, concVars>>

Logout ==
  /\ session' = NoUser
  /\ granted' = NoUser
  /\ last' = [req |-> "logout", status |-> "redirect_login", ran |-> FALSE]
  /\ UNCHANGED <<users, coreVars, concVars>>

CompareGet ==
  /\ last' = [req |-> "compare_get",
              status |-> IF login_required(session) THEN "index_page" ELSE "redirect_login",
              ran |-> FALSE]
  /\ UNCHANGED <<users, session, granted, coreVars, concVars>>

ComparePost ==
  \E side1 \in Sides, side2 \in Sides :
    IF login_required(session)
    THEN \E c \in {compare_all(text_of(side1), text_of(side2))} :
           /\ text1' = text_of(side1)
           /\ text2' = text_of(side2)
           /\ locals' = [sf1 |-> c.sf1, sf2 |-> c.sf2, vocab |-> c.vocab,
                         idf |-> [i \in 1..Len(c.vocab) |-> c.idf[c.vocab[i]]],
                         vectors |-> c.vectors]
           /\ result' = c.result
           /\ pc' = IF c.raised THEN "raised" ELSE "returned"
           /\ last' = [req |-> "compare_post",
                       status |-> IF c.raised THEN "error" ELSE "index_page",
                       ran |-> TRUE]
           /\ UNCHANGED <<users, session, granted, concVars>>
    ELSE /\ last' = [req |-> "compare_post", status |-> "redirect_login", ran |-> FALSE]
         /\ UNCHANGED <<users, session, granted, coreVars, concVars>>

NextWeb ==
  \/ RegisterGet \/ RegisterPost \/ LoginGet \/ LoginPost
  \/ Logout \/ CompareGet \/ ComparePost

SpecWeb == Init /\ [][NextWeb]_vars

\* C10: a comparison runs only for a request whose session holds a user that a
\* successful register or login put there; a compare request without one is
\* answered with the redirect to the login page and computes nothing.
C10_SessionGated ==
  /\ last.ran => /\ last.req = "compare_post"
                 /\ session # NoUser
                 /\ session = granted
                 /\ session \in DOMAIN users
  /\ (last.req \in {"compare_get", "compare_post"} /\ session = NoUser)
       => (last.status = "redirect_login" /\ ~last.ran)
  /\ pc # "none" => users # <<>>

\* bob, registered next to ann, has the uploaded "a\xff." compared with "a"
C10_Witness ==
  /\ last.ran
  /\ last.status = "index_page"
  /\ session = "bob"
  /\ "ann" \in DOMAIN users
  /\ text1 = <<97, 46>>
  /\ text2 = <<97>>
  /\ result.jaccard = One

=============================================================================
